---- MODULE Spec2Model ----
(***************************************************************************)
(* Model of the football-match-tracker local store and sync orchestrator:  *)
(* DatabaseManager (database.py), FootballMatchService.sync_team_fixtures  *)
(* (service.py) and APIFootballClient.parse_fixture (api_client.py).       *)
(*                                                                         *)
(* The SQLite tables are the state: `fixtures` (keyed by its INTEGER       *)
(* PRIMARY KEY fixture_id) and `attended_matches` (rows in rowid order).   *)
(* `now` is the value CURRENT_TIMESTAMP yields; `lastCall` records the     *)
(* operation that produced the current state, its arguments and its        *)
(* return value.                                                           *)
(***************************************************************************)
EXTENDS Integers, Sequences, FiniteSets, TLC

VARIABLES fixtures, attended_matches, now, lastCall

vars == <<fixtures, attended_matches, now, lastCall>>

(***************************************************************************)
(* Bounds                                                                  *)
(***************************************************************************)
\* CURRENT_TIMESTAMP takes the values 0..MaxTime.
MaxTime == 1
\* The data source returns at most MaxFetch raw records per call.
MaxFetch == 2

(***************************************************************************)
(* Values                                                                  *)
(***************************************************************************)
\* SQL NULL / Python None in an integer column (ids and goals are >= 0).
NULL == -1
\* SQL NULL / Python None in a text column or text argument.
NoText == "<None>"
\* The ISO-8601 text of instant n, and the empty text fixture.get('date', '')
\* yields for a raw record without a 'date' key.
Iso(n) == << n >>
NoDate == << >>
\* A key that is absent from the raw record (or whose enclosing object is
\* absent), where an integer or a text is expected.
AbsentInt == -2
AbsentText == "<absent>"

Teams == {1, 2}
\* team_id arguments: omitted (None), 0, and the teams of the records.
TeamArgs == {NULL, 0} \cup Teams
CanonicalStatus == {"scheduled", "in_progress", "finished", "postponed"}
\* status arguments: omitted (None) or a status to match.
StatusArgs == {NoText, "finished", "scheduled"}
NoteArgs == {NoText, "great match"}

\* FootballMatchService.COMPETITIONS: key -> league id.
COMPETITIONS ==
    [k \in {"brasileirao_a", "brasileirao_b", "copa_do_brasil",
            "libertadores", "sul_americana"} |->
        CASE k = "brasileirao_a" -> 71
          [] k = "brasileirao_b" -> 72
          [] k = "copa_do_brasil" -> 73
          [] k = "libertadores" -> 13
          [] k = "sul_americana" -> 11]
\* Competition keys a caller passes: a known key and an unknown one.
CompetitionArgs == {"brasileirao_a", "serie_z"}

(***************************************************************************)
(* Raw records of the data source (flattened API-Football fixture object). *)
(***************************************************************************)
Raw(id, date, short, home, away, hname, gh, ga, venue, city) ==
    [id |-> id, date |-> date, timestamp |-> Len(date),
     venue_name |-> venue, venue_city |-> city,
     short |-> short, long |-> short,
     league_id |-> 71, league_name |-> "Serie A", season |-> 2024,
     round |-> "Regular Season",
     home_id |-> home, home_name |-> hname,
     away_id |-> away, away_name |-> "Away FC",
     goals_home |-> gh, goals_away |-> ga,
     ht_home |-> NULL, ht_away |-> NULL,
     ft_home |-> gh, ft_away |-> ga]

\* The records the data source may return.  Fixture 1: scheduled, then
\* finished as a home win of team 1, or delivered without a date.  Fixture 2:
\* a draw team 1 played away, a record naming team 1 on both sides, a
\* finished record without goals, or a record whose home team name is null.
RawRecords ==
    { Raw(1, Iso(2), "NS", 1, 2, "Home FC", NULL, NULL, "Maracana", "Rio"),
      Raw(1, Iso(2), "FT", 1, 2, "Home FC", 2, 1, "Maracana", "Rio"),
      Raw(1, NoDate, "FT", 1, 2, "Home FC", 2, 1, "Maracana", "Rio"),
      Raw(2, Iso(1), "AET", 2, 1, "Home FC", 1, 1, "Arena X", "Sao Paulo"),
      Raw(2, Iso(1), "PEN", 1, 1, "Home FC", 2, 1, "Maracana", "Rio"),
      Raw(2, Iso(3), "FT", 1, 2, "Home FC", NULL, NULL, "Arena X", "Sao Paulo"),
      Raw(2, Iso(1), "FT", 1, 2, NoText, 2, 1, "Maracana", "Rio") }

\* The records a response of the data source is made of: fixture 1 scheduled,
\* finished or without a date, fixture 2 with a result or with a null name.
FetchRecords ==
    { r \in RawRecords :
        \/ r.id = 1
        \/ r.short = "AET"
        \/ r.home_name = NoText }

FixtureIds == { r.id : r \in RawRecords }

RECURSIVE SeqsUpTo(_, _)
\* All sequences over S of length at most n.
SeqsUpTo(S, n) ==
    IF n = 0 THEN { <<>> }
    ELSE LET shorter == SeqsUpTo(S, n - 1)
         IN  shorter \cup { Append(s, x) : s \in shorter, x \in S }

\* The nested parts of a raw record that may be missing.
Substructures ==
    {"date", "status", "venue", "teams", "goals", "league", "score"}

\* The raw record r delivered without the parts named in absent.
Without(r, absent) ==
    [r EXCEPT
        !.date = IF "date" \in absent THEN NoDate ELSE @,
        !.short = IF "status" \in absent THEN AbsentText ELSE @,
        !.long = IF "status" \in absent THEN AbsentText ELSE @,
        !.venue_name = IF "venue" \in absent THEN AbsentText ELSE @,
        !.venue_city = IF "venue" \in absent THEN AbsentText ELSE @,
        !.home_id = IF "teams" \in absent THEN AbsentInt ELSE @,
        !.home_name = IF "teams" \in absent THEN AbsentText ELSE @,
        !.away_id = IF "teams" \in absent THEN AbsentInt ELSE @,
        !.away_name = IF "teams" \in absent THEN AbsentText ELSE @,
        !.goals_home = IF "goals" \in absent THEN AbsentInt ELSE @,
        !.goals_away = IF "goals" \in absent THEN AbsentInt ELSE @,
        !.league_id = IF "league" \in absent THEN AbsentInt ELSE @,
        !.league_name = IF "league" \in absent THEN AbsentText ELSE @,
        !.season = IF "league" \in absent THEN AbsentInt ELSE @,
        !.round = IF "league" \in absent THEN AbsentText ELSE @,
        !.ht_home = IF "score" \in absent THEN AbsentInt ELSE @,
        !.ht_away = IF "score" \in absent THEN AbsentInt ELSE @,
        !.ft_home = IF "score" \in absent THEN AbsentInt ELSE @,
        !.ft_away = IF "score" \in absent THEN AbsentInt ELSE @]

\* Short status codes of the data source: the mapped ones, two unmapped ones
\* and the empty code.
ShortCodes ==
    {"FT", "AET", "PEN", "1H", "2H", "HT", "ET", "P", "LIVE", "TBD", "NS",
     "PST", "CANC", ""}

\* The raw records handed to parse_fixture: a played fixture under every
\* short code, and with any of its nested parts missing.
ParseInputs ==
    { Raw(1, Iso(2), short, 1, 2, "Home FC", 2, 1, "Maracana", "Rio") :
        short \in ShortCodes }
    \cup
    { Without(Raw(1, Iso(2), "FT", 1, 2, "Home FC", 2, 1, "Maracana", "Rio"),
              absent) :
        absent \in SUBSET Substructures }

(***************************************************************************)
(* APIFootballClient.parse_fixture                                         *)
(***************************************************************************)
\* dict.get(key) and dict.get(key, default) on a possibly absent key.
Get(x) == IF x = AbsentInt THEN NULL ELSE x
GetOr(x, default) == IF x = AbsentText THEN default ELSE x

\* datetime.fromisoformat raises ValueError on the empty string.
ParseRaises(raw) == raw.date = NoDate

\* datetime.fromisoformat(text.replace('Z', '+00:00')): the instant.
fromisoformat(text) == text[1]

\* Unmapped codes kept as they are.
StatusOf_keep_unmapped(short) ==
    IF short \in {"FT", "AET", "PEN"} THEN "finished"
    ELSE IF short \in {"1H", "2H", "HT", "ET", "P", "LIVE"} THEN "in_progress"
    ELSE IF short \in {"TBD", "NS"} THEN "scheduled"
    ELSE IF short = "PST" THEN "postponed"
    ELSE short

StatusOf(short) ==
    IF short \in {"FT", "AET", "PEN"} THEN "finished"
    ELSE IF short \in {"1H", "2H", "HT", "ET", "P", "LIVE"} THEN "in_progress"
    ELSE IF short \in {"TBD", "NS"} THEN "scheduled"
    ELSE "postponed"

\* The date as 'DD/MM/YYYY HH:MM' text: instants are numbered, the text is
\* the number's decimal digit sequence.
FormatDate(d) == <<d \div 10, d % 10>>

parse_fixture(raw) ==
    [fixture_id |-> raw.id,
     date |-> fromisoformat(raw.date),
     date_formatted |-> FormatDate(fromisoformat(raw.date)),
     timestamp |-> raw.timestamp,
     venue |-> GetOr(raw.venue_name, "N/A"),
     venue_city |-> GetOr(raw.venue_city, "N/A"),
     status |-> StatusOf(GetOr(raw.short, "")),
     status_long |-> GetOr(raw.long, ""),
     league_id |-> Get(raw.league_id),
     league_name |-> GetOr(raw.league_name, ""),
     season |-> Get(raw.season),
     round |-> GetOr(raw.round, ""),
     home_team_id |-> Get(raw.home_id),
     home_team_name |-> GetOr(raw.home_name, ""),
     away_team_id |-> Get(raw.away_id),
     away_team_name |-> GetOr(raw.away_name, ""),
     home_goals |-> Get(raw.goals_home),
     away_goals |-> Get(raw.goals_away),
     halftime_home |-> Get(raw.ht_home),
     halftime_away |-> Get(raw.ht_away),
     fulltime_home |-> Get(raw.ft_home),
     fulltime_away |-> Get(raw.ft_away)]

\* The fixture dictionaries a caller hands to insert_fixture.
FixtureDicts == { parse_fixture(raw) : raw \in { r \in RawRecords : ~ParseRaises(r) } }

(***************************************************************************)
(* DatabaseManager: the fixtures table                                     *)
(***************************************************************************)
\* No row with this primary key.
NoRow == [fixture_id |-> NULL]

\* The columns insert_fixture writes from the dictionary.
DataColumns ==
    {"fixture_id", "date", "timestamp", "venue", "venue_city", "status",
     "status_long", "league_id", "season", "round", "home_team_id",
     "home_team_name", "away_team_id", "away_team_name", "home_goals",
     "away_goals", "halftime_home", "halftime_away", "fulltime_home",
     "fulltime_away"}

\* NOT NULL columns of the fixtures table: a null value raises IntegrityError.
ViolatesNotNull(d) ==
    \/ d.date = NULL
    \/ d.status = NoText
    \/ d.home_team_name = NoText
    \/ d.away_team_name = NoText

\* The row INSERT OR REPLACE stores: the old row is deleted and the new one
\* takes the dictionary's values, updated_at = CURRENT_TIMESTAMP and, being
\* absent from the column list, created_at = DEFAULT CURRENT_TIMESTAMP.
NewRow(d, t) ==
    [fixture_id |-> d.fixture_id, date |-> d.date,
     timestamp |-> d.timestamp, venue |-> d.venue,
     venue_city |-> d.venue_city, status |-> d.status,
     status_long |-> d.status_long, league_id |-> d.league_id,
     season |-> d.season, round |-> d.round,
     home_team_id |-> d.home_team_id, home_team_name |-> d.home_team_name,
     away_team_id |-> d.away_team_id, away_team_name |-> d.away_team_name,
     home_goals |-> d.home_goals, away_goals |-> d.away_goals,
     halftime_home |-> d.halftime_home, halftime_away |-> d.halftime_away,
     fulltime_home |-> d.fulltime_home, fulltime_away |-> d.fulltime_away,
     created_at |-> t, updated_at |-> t]

HasRow(fx, id) == fx[id] # NoRow

StoredIds(fx) == { id \in DOMAIN fx : HasRow(fx, id) }

\* insert_fixture as INSERT OR IGNORE: an existing row is kept.
insert_fixture_or_ignore(fx, d, t) ==
    IF ViolatesNotNull(d)
    THEN [fixtures |-> fx, raised |-> TRUE]
    ELSE [fixtures |-> IF HasRow(fx, d.fixture_id) THEN fx
                       ELSE [fx EXCEPT ![d.fixture_id] = NewRow(d, t)],
          raised |-> FALSE]

\* insert_fixture whose failed REPLACE has already deleted the old row.
insert_fixture_delete_on_error(fx, d, t) ==
    IF ViolatesNotNull(d)
    THEN [fixtures |-> [fx EXCEPT ![d.fixture_id] = NoRow], raised |-> TRUE]
    ELSE [fixtures |-> [fx EXCEPT ![d.fixture_id] = NewRow(d, t)],
          raised |-> FALSE]

\* insert_fixture on table fx at time t: the table afterward and whether the
\* statement raised (get_connection then rolls back and re-raises).
insert_fixture(fx, d, t) ==
    IF ViolatesNotNull(d)
    THEN [fixtures |-> fx, raised |-> TRUE]
    ELSE [fixtures |-> [fx EXCEPT ![d.fixture_id] = NewRow(d, t)],
          raised |-> FALSE]

(***************************************************************************)
(* DatabaseManager: the attended_matches table                             *)
(***************************************************************************)
\* The rows of attended_matches whose fixture_id is id.
MarksOf(am, id) == SelectSeq(am, LAMBDA m : m.fixture_id = id)

IsMarked(am, id) == MarksOf(am, id) # <<>>

\* mark_attended on a table without UNIQUE(fixture_id): every call inserts.
mark_attended_not_unique(am, fixture_id, notes, t) ==
    [attended |-> Append(am, [fixture_id |-> fixture_id,
                              attended_date |-> t,
                              notes |-> notes]),
     ret |-> TRUE]

\* mark_attended on a connection that enforces the foreign key: the INSERT
\* also raises IntegrityError when the fixture has no row.
mark_attended_foreign_key(am, fixture_id, notes, t) ==
    IF IsMarked(am, fixture_id) \/ ~HasRow(fixtures, fixture_id)
    THEN [attended |-> am, ret |-> FALSE]
    ELSE [attended |-> Append(am, [fixture_id |-> fixture_id,
                                   attended_date |-> t,
                                   notes |-> notes]),
          ret |-> TRUE]

\* mark_attended: the INSERT raises IntegrityError when UNIQUE(fixture_id)
\* is violated and the method returns False; otherwise the row is added and
\* it returns True.  The declared foreign key is not enforced (the
\* connection never sets PRAGMA foreign_keys), so no fixture row is needed.
mark_attended(am, fixture_id, notes, t) ==
    IF IsMarked(am, fixture_id)
    THEN [attended |-> am, ret |-> FALSE]
    ELSE [attended |-> Append(am, [fixture_id |-> fixture_id,
                                   attended_date |-> t,
                                   notes |-> notes]),
          ret |-> TRUE]

\* unmark_attended returning rowcount >= 0.
unmark_attended_always_true(am, fixture_id) ==
    [attended |-> SelectSeq(am, LAMBDA m : m.fixture_id # fixture_id),
     ret |-> Len(MarksOf(am, fixture_id)) >= 0]

\* unmark_attended: DELETE ... WHERE fixture_id = ?; returns rowcount > 0.
unmark_attended(am, fixture_id) ==
    [attended |-> SelectSeq(am, LAMBDA m : m.fixture_id # fixture_id),
     ret |-> Len(MarksOf(am, fixture_id)) > 0]

(***************************************************************************)
(* DatabaseManager.get_fixtures                                            *)
(***************************************************************************)
\* Python truthiness of an Optional[int] / Optional[str] argument.
TruthyInt(x) == x # NULL /\ x # 0
TruthyText(x) == x # NoText /\ x # ""

\* SQL comparisons: a comparison with NULL is not true.
SqlEq(a, b) == a # NULL /\ b # NULL /\ a = b
SqlGt(a, b) == a # NULL /\ b # NULL /\ a > b
SqlLt(a, b) == a # NULL /\ b # NULL /\ a < b

\* A row of fixtures f LEFT JOIN attended_matches am: f.* and the three
\* selected columns of the mark (m = NoMark when no mark matches).
NoMark == [fixture_id |-> NULL, attended_date |-> NULL, notes |-> NoText]

JoinedRow(f, m) ==
    [fixture_id |-> f.fixture_id, date |-> f.date,
     timestamp |-> f.timestamp, venue |-> f.venue,
     venue_city |-> f.venue_city, status |-> f.status,
     status_long |-> f.status_long, league_id |-> f.league_id,
     season |-> f.season, round |-> f.round,
     home_team_id |-> f.home_team_id, home_team_name |-> f.home_team_name,
     away_team_id |-> f.away_team_id, away_team_name |-> f.away_team_name,
     home_goals |-> f.home_goals, away_goals |-> f.away_goals,
     halftime_home |-> f.halftime_home, halftime_away |-> f.halftime_away,
     fulltime_home |-> f.fulltime_home, fulltime_away |-> f.fulltime_away,
     created_at |-> f.created_at, updated_at |-> f.updated_at,
     attended |-> IF m.fixture_id # NULL THEN 1 ELSE 0,
     attended_date |-> m.attended_date, notes |-> m.notes]

\* The joined rows of one fixture row: one per matching mark, or one with
\* null mark columns.
JoinOne(f, am) ==
    LET ms == MarksOf(am, f.fixture_id)
    IN  IF ms = <<>> THEN << JoinedRow(f, NoMark) >>
        ELSE [i \in 1..Len(ms) |-> JoinedRow(f, ms[i])]

RECURSIVE LeftJoin(_, _, _)
\* fixtures f LEFT JOIN attended_matches am over the stored ids, in primary
\* key order.
LeftJoin(fx, am, ids) ==
    IF ids = {} THEN <<>>
    ELSE LET id == CHOOSE i \in ids : \A j \in ids : i <= j
         IN  JoinOne(fx[id], am) \o LeftJoin(fx, am, ids \ {id})

RECURSIVE InsertByDateDesc(_, _)
InsertByDateDesc(sorted, row) ==
    IF sorted = <<>> THEN << row >>
    ELSE IF Head(sorted).date >= row.date
         THEN << Head(sorted) >> \o InsertByDateDesc(Tail(sorted), row)
         ELSE << row >> \o sorted

RECURSIVE OrderByDateDesc(_)
\* ORDER BY f.date DESC (rows of equal date keep their join order).
OrderByDateDesc(rows) ==
    IF rows = <<>> THEN <<>>
    ELSE InsertByDateDesc(OrderByDateDesc(SubSeq(rows, 1, Len(rows) - 1)),
                          rows[Len(rows)])

\* The team filter of get_fixtures and get_statistics.
PlaysIn(row, team_id) ==
    \/ SqlEq(row.home_team_id, team_id)
    \/ SqlEq(row.away_team_id, team_id)

get_fixtures(fx, am, team_id, status, attended_only) ==
    LET Keep(row) ==
            /\ TruthyInt(team_id) => PlaysIn(row, team_id)
            /\ TruthyText(status) => row.status = status
            /\ attended_only => row.attended = 1
    IN  OrderByDateDesc(SelectSeq(LeftJoin(fx, am, StoredIds(fx)), Keep))

(***************************************************************************)
(* DatabaseManager.get_statistics                                          *)
(***************************************************************************)
\* The fixture columns of a mark joined to no fixture row: all NULL.
NullFixture ==
    [fixture_id |-> NULL, date |-> NULL, timestamp |-> NULL,
     venue |-> NoText, venue_city |-> NoText, status |-> NoText,
     status_long |-> NoText, league_id |-> NULL, season |-> NULL,
     round |-> NoText, home_team_id |-> NULL, home_team_name |-> NoText,
     away_team_id |-> NULL, away_team_name |-> NoText,
     home_goals |-> NULL, away_goals |-> NULL,
     halftime_home |-> NULL, halftime_away |-> NULL,
     fulltime_home |-> NULL, fulltime_away |-> NULL,
     created_at |-> NULL, updated_at |-> NULL]

RECURSIVE InnerJoin_keep_orphans(_, _)
\* attended_matches am LEFT JOIN fixtures f: a mark without a fixture row
\* yields a row too.
InnerJoin_keep_orphans(fx, am) ==
    IF am = <<>> THEN <<>>
    ELSE LET m == Head(am)
         IN  (IF m.fixture_id \in StoredIds(fx)
              THEN << JoinedRow(fx[m.fixture_id], m) >>
              ELSE << JoinedRow(NullFixture, m) >>)
             \o InnerJoin_keep_orphans(fx, Tail(am))

RECURSIVE InnerJoin(_, _)
\* attended_matches am JOIN fixtures f: one row per mark whose fixture_id
\* has a fixture row.
InnerJoin(fx, am) ==
    IF am = <<>> THEN <<>>
    ELSE LET m == Head(am)
         IN  (IF m.fixture_id \in StoredIds(fx)
              THEN << JoinedRow(fx[m.fixture_id], m) >> ELSE <<>>)
             \o InnerJoin(fx, Tail(am))

IsWin(row, team_id) ==
    \/ SqlEq(row.home_team_id, team_id) /\ SqlGt(row.home_goals, row.away_goals)
    \/ SqlEq(row.away_team_id, team_id) /\ SqlGt(row.away_goals, row.home_goals)

IsDraw(row) ==
    SqlEq(row.home_goals, row.away_goals) /\ row.status = "finished"

IsLoss(row, team_id) ==
    \/ SqlEq(row.home_team_id, team_id) /\ SqlLt(row.home_goals, row.away_goals)
    \/ SqlEq(row.away_team_id, team_id) /\ SqlLt(row.away_goals, row.home_goals)

\* The statistics dictionary without its stadiums entry (see stadiums
\* below): has_record tells whether the wins, draws and losses keys are
\* present.  SUM(CASE WHEN c THEN 1 ELSE 0 END) is the number
\* of rows satisfying c, and 'or 0' turns the NULL sum of no rows into 0.
get_statistics(fx, am, team_id) ==
    LET joined == InnerJoin(fx, am)
        scoped == IF TruthyInt(team_id)
                  THEN SelectSeq(joined, LAMBDA r : PlaysIn(r, team_id))
                  ELSE joined
        played == SelectSeq(joined,
                      LAMBDA r : PlaysIn(r, team_id) /\ r.status = "finished")
    IN  [total_attended |-> Len(scoped),
         has_record |-> TruthyInt(team_id),
         wins |-> IF TruthyInt(team_id)
                  THEN Len(SelectSeq(played, LAMBDA r : IsWin(r, team_id)))
                  ELSE 0,
         draws |-> IF TruthyInt(team_id)
                   THEN Len(SelectSeq(played, IsDraw)) ELSE 0,
         losses |-> IF TruthyInt(team_id)
                    THEN Len(SelectSeq(played, LAMBDA r : IsLoss(r, team_id)))
                    ELSE 0]

\* The stadiums entry of the statistics dictionary: one row per group of
\* GROUP BY f.venue, f.venue_city with its COUNT(*), ORDER BY visits DESC.
\* SQL leaves the order of rows with equal visits open, so the value is the
\* set of the lists the query may return.
stadiums(fx, am, team_id) ==
    LET joined == InnerJoin(fx, am)
        scoped == IF TruthyInt(team_id)
                  THEN SelectSeq(joined, LAMBDA r : PlaysIn(r, team_id))
                  ELSE joined
        group(r) == << r.venue, r.venue_city >>
        groups == { group(scoped[i]) : i \in 1..Len(scoped) }
        rowOf(g) ==
            [venue |-> g[1], venue_city |-> g[2],
             visits |-> Cardinality({ i \in 1..Len(scoped) :
                                        group(scoped[i]) = g })]
        rows == { rowOf(g) : g \in groups }
    IN  { s \in [1..Cardinality(rows) -> rows] :
            /\ \A i, j \in DOMAIN s : s[i] = s[j] => i = j
            /\ \A i, j \in DOMAIN s : i < j => s[i].visits >= s[j].visits }

(***************************************************************************)
(* FootballMatchService.sync_team_fixtures                                 *)
(***************************************************************************)
RECURSIVE InsertAll(_, _, _)
\* Every record of recs parsed and inserted, none failing.
InsertAll(fx, recs, t) ==
    IF recs = <<>> THEN fx
    ELSE InsertAll(insert_fixture(fx, parse_fixture(Head(recs)), t).fixtures,
                   Tail(recs), t)

\* The loop run inside one transaction: a failure rolls back every insert.
SyncLoop_one_transaction(fx, recs, t, done) ==
    IF \E i \in 1..Len(recs) :
          \/ ParseRaises(recs[i])
          \/ ViolatesNotNull(parse_fixture(recs[i]))
    THEN [fixtures |-> fx, raised |-> TRUE, new_count |-> done]
    ELSE [fixtures |-> InsertAll(fx, recs, t), raised |-> FALSE,
          new_count |-> done + Len(recs)]

\* The loop counting only the records whose fixture_id had no row yet.
SyncLoop_count_new(fx, recs, t, done) ==
    IF \E i \in 1..Len(recs) :
          \/ ParseRaises(recs[i])
          \/ ViolatesNotNull(parse_fixture(recs[i]))
    THEN [fixtures |-> fx, raised |-> TRUE, new_count |-> done]
    ELSE [fixtures |-> InsertAll(fx, recs, t), raised |-> FALSE,
          new_count |-> done + Cardinality({ recs[i].id : i \in 1..Len(recs) }
                                               \ StoredIds(fx))]

RECURSIVE SyncLoop(_, _, _, _)
\* The for loop over the fetched records: parse, then insert; the first
\* exception ends the loop.  done counts the records inserted so far.
SyncLoop(fx, recs, t, done) ==
    IF recs = <<>> THEN [fixtures |-> fx, raised |-> FALSE, new_count |-> done]
    ELSE IF ParseRaises(Head(recs))
         THEN [fixtures |-> fx, raised |-> TRUE, new_count |-> done]
         ELSE LET r == insert_fixture(fx, parse_fixture(Head(recs)), t)
              IN  IF r.raised
                  THEN [fixtures |-> fx, raised |-> TRUE, new_count |-> done]
                  ELSE SyncLoop(r.fixtures, Tail(recs), t, done + 1)

\* sync_team_fixtures falling back to a default competition when the key is
\* unknown: the data source is always called.
sync_team_fixtures_default_competition(fx, competition, fetch, t) ==
    IF fetch.raised
    THEN [fixtures |-> fx, ret |-> <<0, 0>>, called |-> TRUE]
    ELSE LET r == SyncLoop(fx, fetch.response, t, 0)
         IN  [fixtures |-> r.fixtures,
              ret |-> IF r.raised THEN <<0, 0>>
                      ELSE <<Len(fetch.response), r.new_count>>,
              called |-> TRUE]

\* sync_team_fixtures: fetch is what get_team_fixtures does when called,
\* either [raised |-> TRUE] or [raised |-> FALSE, response |-> records].
\* called tells whether the data source was called at all.
sync_team_fixtures(fx, competition, fetch, t) ==
    IF competition \notin DOMAIN COMPETITIONS
    THEN [fixtures |-> fx, ret |-> <<0, 0>>, called |-> FALSE]
    ELSE IF fetch.raised
         THEN [fixtures |-> fx, ret |-> <<0, 0>>, called |-> TRUE]
         ELSE LET r == SyncLoop(fx, fetch.response, t, 0)
              IN  [fixtures |-> r.fixtures,
                   ret |-> IF r.raised THEN <<0, 0>>
                           ELSE <<Len(fetch.response), r.new_count>>,
                   called |-> TRUE]

\* What get_team_fixtures may do: raise (timeout, transport or API error) or
\* return up to MaxFetch raw records.
\* No answer: the data source was not called.
NotFetched == [raised |-> FALSE, response |-> <<>>]

FetchOutcomes ==
    { [raised |-> TRUE, response |-> <<>>] } \cup
    { [raised |-> FALSE, response |-> s] : s \in SeqsUpTo(FetchRecords, MaxFetch) }

(***************************************************************************)
(* Initial state: initialize_database on a new file creates empty tables.  *)
(***************************************************************************)
Init ==
    /\ fixtures = [id \in FixtureIds |-> NoRow]
    /\ attended_matches = <<>>
    /\ now = 0
    /\ lastCall = [op |-> "init"]

\* Time passes between two calls.
Tick ==
    /\ now < MaxTime
    /\ now' = now + 1
    /\ lastCall' = [op |-> "tick"]
    /\ UNCHANGED <<fixtures, attended_matches>>

\* insert_fixture on a schema whose attendance marks are deleted with the
\* fixture row they reference (ON DELETE CASCADE, foreign keys enforced):
\* REPLACE deletes the old row and its mark with it.
UpsertFixture_cascade ==
    \E d \in FixtureDicts :
        \E r \in { insert_fixture(fixtures, d, now) } :
            /\ fixtures' = r.fixtures
            /\ attended_matches' =
                   IF r.raised THEN attended_matches
                   ELSE SelectSeq(attended_matches,
                                  LAMBDA m : m.fixture_id # d.fixture_id)
            /\ lastCall' = [op |-> "insert_fixture", data |-> d,
                            ret |-> ~r.raised, raised |-> r.raised,
                            existed |-> HasRow(fixtures, d.fixture_id)]
            /\ UNCHANGED now

\* DatabaseManager.insert_fixture(fixture_data)
UpsertFixture ==
    \E d \in FixtureDicts :
        \E r \in { insert_fixture(fixtures, d, now) } :
            /\ fixtures' = r.fixtures
            /\ lastCall' = [op |-> "insert_fixture", data |-> d,
                            ret |-> ~r.raised, raised |-> r.raised,
                            existed |-> HasRow(fixtures, d.fixture_id)]
            /\ UNCHANGED <<attended_matches, now>>

\* DatabaseManager.mark_attended(fixture_id, notes)
MarkAttended ==
    \E id \in FixtureIds, notes \in NoteArgs :
        \E r \in { mark_attended(attended_matches, id, notes, now) } :
            /\ attended_matches' = r.attended
            /\ lastCall' = [op |-> "mark_attended", fixture_id |-> id,
                            ret |-> r.ret]
            /\ UNCHANGED <<fixtures, now>>

\* DatabaseManager.unmark_attended(fixture_id)
UnmarkAttended ==
    \E id \in FixtureIds :
        \E r \in { unmark_attended(attended_matches, id) } :
            /\ attended_matches' = r.attended
            /\ lastCall' = [op |-> "unmark_attended", fixture_id |-> id,
                            ret |-> r.ret]
            /\ UNCHANGED <<fixtures, now>>

\* FootballMatchService.sync_team_fixtures(team_id, competition, season).
\* The data source's answer is drawn only when the code reaches the call.
SyncTeamFixtures ==
    \E competition \in CompetitionArgs :
        \E fetch \in IF competition \in DOMAIN COMPETITIONS
                     THEN FetchOutcomes ELSE { NotFetched } :
            \E r \in { sync_team_fixtures(fixtures, competition, fetch, now) } :
                /\ fixtures' = r.fixtures
                /\ lastCall' = [op |-> "sync_team_fixtures",
                                competition |-> competition, fetch |-> fetch,
                                called |-> r.called, ret |-> r.ret]
                /\ UNCHANGED <<attended_matches, now>>

\* APIFootballClient.parse_fixture(fixture_data): a pure function; the call
\* either raises or returns the fixture dictionary.
ParseFixture ==
    \E raw \in ParseInputs :
        /\ lastCall' = [op |-> "parse_fixture", raw |-> raw,
                        raised |-> ParseRaises(raw),
                        ret |-> IF ParseRaises(raw) THEN NoRow
                                ELSE parse_fixture(raw)]
        /\ UNCHANGED <<fixtures, attended_matches, now>>

\* DatabaseManager.get_fixtures(team_id, status, attended_only): a read.
GetFixtures ==
    /\ lastCall' = [op |-> "get_fixtures"]
    /\ UNCHANGED <<fixtures, attended_matches, now>>

\* DatabaseManager.get_statistics(team_id): a read.
GetStatistics ==
    /\ lastCall' = [op |-> "get_statistics"]
    /\ UNCHANGED <<fixtures, attended_matches, now>>

\* Calls made while CURRENT_TIMESTAMP keeps one value.
Next ==
    \/ UpsertFixture
    \/ MarkAttended
    \/ UnmarkAttended
    \/ SyncTeamFixtures
    \/ GetFixtures
    \/ GetStatistics

Spec == Init /\ [][Next]_vars

\* The store's own operations, with time passing between calls.
NextClock ==
    \/ Tick
    \/ UpsertFixture
    \/ MarkAttended
    \/ UnmarkAttended
    \/ GetFixtures
    \/ GetStatistics

SpecClock == Init /\ [][NextClock]_vars

\* The normalizer on its own inputs, and the sync that stores what it yields.
NextParse ==
    \/ ParseFixture
    \/ SyncTeamFixtures

SpecParse == Init /\ [][NextParse]_vars

(***************************************************************************)
(* Properties                                                              *)
(***************************************************************************)
\* The rows of a query result whose fixture_id is id.
RowsFor(rows, id) == SelectSeq(rows, LAMBDA r : r.fixture_id = id)

\* The fields of a row or dictionary the store persists from the caller's
\* values: status, goals, teams, venue, league, season, round and scores.
PersistedData(d) ==
    [fixture_id |-> d.fixture_id, timestamp |-> d.timestamp,
     venue |-> d.venue, venue_city |-> d.venue_city,
     status |-> d.status, status_long |-> d.status_long,
     league_id |-> d.league_id, season |-> d.season, round |-> d.round,
     home_team_id |-> d.home_team_id, home_team_name |-> d.home_team_name,
     away_team_id |-> d.away_team_id, away_team_name |-> d.away_team_name,
     home_goals |-> d.home_goals, away_goals |-> d.away_goals,
     halftime_home |-> d.halftime_home, halftime_away |-> d.halftime_away,
     fulltime_home |-> d.fulltime_home, fulltime_away |-> d.fulltime_away]

\* The persisted fields of row equal those of the dictionary or row d.
SameData(row, d) ==
    \A r \in { row }, e \in { d } : PersistedData(r) = PersistedData(e)

\* The unfiltered query result.
AllFixtures(fx, am) == get_fixtures(fx, am, NULL, NoText, FALSE)

\* A raw record the sync loop cannot write.
Fails(raw) ==
    ParseRaises(raw) \/ \E d \in { parse_fixture(raw) } : ViolatesNotNull(d)

\* The position of the first record of a response that fails, or one past
\* its end.
FirstFailure(resp) ==
    LET bad == { i \in 1..Len(resp) : Fails(resp[i]) }
    IN  IF bad = {} THEN Len(resp) + 1
        ELSE CHOOSE i \in bad : \A j \in bad : i <= j

\* The last of the first k records of resp that carries id (0 when none).
LastFor(resp, k, id) ==
    LET at == { i \in 1..k : resp[i].id = id }
    IN  IF at = {} THEN 0 ELSE CHOOSE i \in at : \A j \in at : j <= i

\* After a sync call on response resp, each fixture_id carried by a record
\* before the first failing one shows the values of the last such record,
\* and every other fixture row is as before the call.
SyncWrotePrefix(resp) ==
    \A written \in { FirstFailure(resp) - 1 }, id \in FixtureIds :
        \A last \in { LastFor(resp, written, id) } :
            IF last = 0 THEN fixtures'[id] = fixtures[id]
            ELSE /\ HasRow(fixtures', id)
                 /\ \A d \in { parse_fixture(resp[last]) } :
                        SameData(fixtures'[id], d)

\* Every stored fixture_id has exactly one row in the unfiltered query
\* result, and that row shows the stored values.
C1_OneRowPerStoredId ==
    \A id \in StoredIds(fixtures) :
        LET rows == RowsFor(AllFixtures(fixtures, attended_matches), id)
        IN  Len(rows) = 1 /\ SameData(rows[1], fixtures[id])

\* A call that writes a fixture_id leaves the values of its last write for
\* that id; every other call (mark, unmark, a failed upsert, a query) leaves
\* the row as it was.
C1_StepKeepsLastWrite ==
    \A call \in { lastCall' } :
        IF call.op = "sync_team_fixtures" /\ call.called /\ ~call.fetch.raised
        THEN SyncWrotePrefix(call.fetch.response)
        ELSE IF call.op = "insert_fixture" /\ ~call.raised
        THEN /\ HasRow(fixtures', call.data.fixture_id)
             /\ SameData(fixtures'[call.data.fixture_id], call.data)
             /\ \A id \in FixtureIds \ {call.data.fixture_id} :
                    fixtures'[id] = fixtures[id]
        ELSE fixtures' = fixtures

\* C1: after any sequence of upsert, mark, unmark and sync calls, the
\* unfiltered query result holds exactly one row for every fixture_id that
\* was upserted, and the row's persisted fields are those of the most recent
\* upsert of that fixture_id.
C1_LastUpsertWins == [](C1_OneRowPerStoredId) /\ [][C1_StepKeepsLastWrite]_vars

\* A sync wrote fixture 1 twice with different values while a mark exists:
\* the second values are the stored ones.
C1_Witness ==
    /\ lastCall.op = "sync_team_fixtures"
    /\ lastCall.ret = <<2, 2>>
    /\ lastCall.fetch.response[1].id = lastCall.fetch.response[2].id
    /\ lastCall.fetch.response[1].short # lastCall.fetch.response[2].short
    /\ attended_matches # <<>>

\* One step of the store seen from the attendance table.
C3_Step ==
    /\ \A id \in FixtureIds : Len(MarksOf(attended_matches', id)) <= 1
    /\ lastCall'.op = "mark_attended" =>
           /\ lastCall'.ret = ~IsMarked(attended_matches, lastCall'.fixture_id)
           /\ Len(MarksOf(attended_matches', lastCall'.fixture_id)) = 1

\* C3: mark_attended returns true exactly when the fixture had no mark and
\* false when it had one; afterward the fixture has exactly one mark, and no
\* state holds two marks for one fixture_id.
C3_MarkOnce == [][C3_Step]_vars

\* A second mark_attended for a marked fixture returned false.
C3_Witness ==
    /\ lastCall.op = "mark_attended"
    /\ lastCall.ret = FALSE
    /\ Len(MarksOf(attended_matches, lastCall.fixture_id)) = 1

\* A fixture is in an attended-only query result, whatever the other
\* filters, only while it has a mark.
C4_AttendedOnlyNeedsMark ==
    \A team_id \in TeamArgs, status \in StatusArgs :
        \A id \in FixtureIds :
            RowsFor(get_fixtures(fixtures, attended_matches,
                                 team_id, status, TRUE), id) # <<>>
                => IsMarked(attended_matches, id)

\* What an unmark_attended step does, and which step creates a mark.
C4_Step ==
    /\ lastCall'.op = "unmark_attended" =>
           LET id == lastCall'.fixture_id
           IN  IF IsMarked(attended_matches, id)
               THEN lastCall'.ret = TRUE /\ ~IsMarked(attended_matches', id)
               ELSE /\ lastCall'.ret = FALSE
                    /\ attended_matches' = attended_matches
                    /\ fixtures' = fixtures
    /\ \A id \in FixtureIds :
           ~IsMarked(attended_matches, id) /\ IsMarked(attended_matches', id)
               => lastCall'.op = "mark_attended" /\ lastCall'.fixture_id = id

\* C4: unmark_attended returns false and changes no table when the fixture
\* has no mark, and returns true and removes the mark when it has one; from
\* then on no attended-only query returns the fixture until mark_attended is
\* called for it (a fixture without a mark gets one by mark_attended only).
C4_Unmark == [](C4_AttendedOnlyNeedsMark) /\ [][C4_Step]_vars

\* unmark_attended removed the mark of a stored fixture and returned true,
\* while another fixture is still marked.
C4_Witness ==
    /\ lastCall.op = "unmark_attended"
    /\ lastCall.ret = TRUE
    /\ HasRow(fixtures, lastCall.fixture_id)
    /\ attended_matches # <<>>

\* What a successful upsert of an existing row does to its timestamps.
C2_Step ==
    \A call \in { lastCall' } :
        (/\ call.op = "insert_fixture"
         /\ ~call.raised
         /\ HasRow(fixtures, call.data.fixture_id))
            => /\ fixtures'[call.data.fixture_id].created_at
                    = fixtures[call.data.fixture_id].created_at
               /\ fixtures'[call.data.fixture_id].updated_at = now'

\* C2: an upsert of a fixture_id that already has a row keeps the row's
\* created_at and sets updated_at to the time of the upsert.
C2_CreatedAtPreserved == [][C2_Step]_vars

\* The stored fixtures that are attended, finished and have team_id as home
\* or away side.
AttendedFinishedOf(team_id) ==
    { id \in StoredIds(fixtures) :
        /\ IsMarked(attended_matches, id)
        /\ fixtures[id].status = "finished"
        /\ (fixtures[id].home_team_id = team_id
            \/ fixtures[id].away_team_id = team_id) }

\* C5: for a supplied team, wins + draws + losses equals the number of
\* attended finished fixtures of the team: each counts once.
C5_ExactlyOneOutcome ==
    \A team_id \in Teams :
        \A st \in { get_statistics(fixtures, attended_matches, team_id) } :
            /\ st.has_record
            /\ st.wins + st.draws + st.losses
                   = Cardinality(AttendedFinishedOf(team_id))

\* C6: total_attended without a team equals the number of attendance marks
\* in the store; with a team it equals the number of marks on fixtures the
\* team plays in.
C6_TotalCountsMarks ==
    /\ get_statistics(fixtures, attended_matches, NULL).total_attended
           = Len(attended_matches)
    /\ \A team_id \in TeamArgs \ {NULL} :
           get_statistics(fixtures, attended_matches, team_id).total_attended
               = Cardinality({ id \in StoredIds(fixtures) :
                                 /\ IsMarked(attended_matches, id)
                                 /\ (fixtures[id].home_team_id = team_id
                                     \/ fixtures[id].away_team_id = team_id) })

\* C7: for every team identifier, 0 included, the query for the team's
\* finished fixtures returns only finished fixtures with the team as home or
\* away side.
C7_TeamFilter ==
    \A team_id \in TeamArgs \ {NULL} :
        \A rows \in { get_fixtures(fixtures, attended_matches,
                                   team_id, "finished", FALSE) } :
            \A i \in 1..Len(rows) :
                /\ rows[i].status = "finished"
                /\ (rows[i].home_team_id = team_id
                    \/ rows[i].away_team_id = team_id)

\* What a sync step with an unknown competition key does.
C8_Step ==
    \A call \in { lastCall' } :
        (call.op = "sync_team_fixtures"
         /\ call.competition \notin DOMAIN COMPETITIONS)
            => /\ call.ret = <<0, 0>>
               /\ ~call.called
               /\ fixtures' = fixtures
               /\ attended_matches' = attended_matches

\* C8: a sync call with a competition key outside the competition table
\* returns (0, 0), does not call the data source and changes neither table.
C8_UnknownCompetition == [][C8_Step]_vars

\* A sync with the unknown key ran on a store holding a fixture and a mark.
C8_Witness ==
    /\ lastCall.op = "sync_team_fixtures"
    /\ lastCall.competition = "serie_z"
    /\ StoredIds(fixtures) # {}
    /\ attended_matches # <<>>

\* Whether a sync call reached the data source and failed, in the fetch or
\* at one of the records.
SyncFailed(call) ==
    /\ call.op = "sync_team_fixtures"
    /\ call.called
    /\ \/ call.fetch.raised
       \/ FirstFailure(call.fetch.response) <= Len(call.fetch.response)

\* What a failed sync step and a failed upsert step leave behind.
C9_Step ==
    \A call \in { lastCall' } :
        /\ SyncFailed(call) =>
              /\ call.ret = <<0, 0>>
              /\ SyncWrotePrefix(call.fetch.response)
              /\ attended_matches' = attended_matches
        /\ (call.op = "insert_fixture" /\ call.raised) =>
              /\ fixtures' = fixtures
              /\ attended_matches' = attended_matches

\* C9: a sync call that fails returns (0, 0); the records before the failing
\* one are stored with their values, the failing record and those after it
\* are not written; an upsert that fails changes neither table.
C9_PartialSyncKept == [][C9_Step]_vars

\* A sync returned (0, 0) because its second record failed, and the row of
\* its first record shows that record's values.
C9_Witness ==
    /\ lastCall.op = "sync_team_fixtures"
    /\ lastCall.ret = <<0, 0>>
    /\ Len(lastCall.fetch.response) = 2
    /\ ~Fails(lastCall.fetch.response[1])
    /\ Fails(lastCall.fetch.response[2])
    /\ lastCall.fetch.response[1].id # lastCall.fetch.response[2].id
    /\ HasRow(fixtures, lastCall.fetch.response[1].id)
    /\ SameData(fixtures[lastCall.fetch.response[1].id],
                parse_fixture(lastCall.fetch.response[1]))
    /\ ~HasRow(fixtures, lastCall.fetch.response[2].id)

C11_AbsentFieldsDefault ==
    \A call \in { lastCall } :
        call.op = "parse_fixture" =>
            /\ ~call.raised
            /\ call.raw.short = AbsentText => call.ret.status_long = ""
            /\ call.raw.venue_name = AbsentText =>
                   call.ret.venue = "N/A" /\ call.ret.venue_city = "N/A"
            /\ call.raw.home_id = AbsentInt =>
                   /\ call.ret.home_team_id = NULL
                   /\ call.ret.home_team_name = ""
                   /\ call.ret.away_team_id = NULL
                   /\ call.ret.away_team_name = ""
            /\ call.raw.goals_home = AbsentInt =>
                   call.ret.home_goals = NULL /\ call.ret.away_goals = NULL
            /\ call.raw.league_id = AbsentInt =>
                   /\ call.ret.league_id = NULL
                   /\ call.ret.league_name = ""
                   /\ call.ret.season = NULL
                   /\ call.ret.round = ""
            /\ call.raw.ft_home = AbsentInt =>
                   /\ call.ret.halftime_home = NULL
                   /\ call.ret.halftime_away = NULL
                   /\ call.ret.fulltime_home = NULL
                   /\ call.ret.fulltime_away = NULL

\* The canonical status the mapping table gives a short code.
MappedStatus(short) ==
    CASE short \in {"FT", "AET", "PEN"} -> "finished"
      [] short \in {"1H", "2H", "HT", "ET", "P", "LIVE"} -> "in_progress"
      [] short \in {"TBD", "NS"} -> "scheduled"
      [] OTHER -> "postponed"

\* C12: for every raw short code a parsed record has the canonical status
\* of the mapping table (FT, AET, PEN finished; 1H, 2H, HT, ET, P, LIVE
\* in_progress; TBD, NS scheduled; any other code, PST and the empty or
\* absent code included, postponed), and every fixture row a sync wrote has
\* one of the four canonical statuses.
C12_StatusMapping ==
    /\ \A call \in { lastCall } :
           (call.op = "parse_fixture" /\ ~call.raised) =>
               /\ call.ret.status \in CanonicalStatus
               /\ call.ret.status
                      = MappedStatus(IF call.raw.short = AbsentText THEN ""
                                     ELSE call.raw.short)
    /\ \A id \in StoredIds(fixtures) : fixtures[id].status \in CanonicalStatus

\* parse_fixture mapped an unmapped code (neither PST nor empty) to
\* postponed, on a store where a sync has written a row.
C12_Witness ==
    /\ lastCall.op = "parse_fixture"
    /\ ~lastCall.raised
    /\ lastCall.raw.short = "CANC"
    /\ lastCall.ret.status = "postponed"
    /\ StoredIds(fixtures) # {}

\* C13: get_statistics without a team has no wins, draws or losses entry;
\* with a supplied team identifier, whatever integer it is, it has all three
\* as non-negative integers, all zero when the team has no attended finished
\* fixture.
C13_RecordPresence ==
    /\ ~get_statistics(fixtures, attended_matches, NULL).has_record
    /\ \A team_id \in TeamArgs \ {NULL} :
           \A st \in { get_statistics(fixtures, attended_matches, team_id) } :
               /\ st.has_record
               /\ st.wins \in Nat /\ st.draws \in Nat /\ st.losses \in Nat
               /\ AttendedFinishedOf(team_id) = {} =>
                      st.wins = 0 /\ st.draws = 0 /\ st.losses = 0

\* The stored fixtures that are attended and in the scope of team_id: all of
\* them when the team is omitted, else those the team plays in.
AttendedInScope(team_id) ==
    { id \in StoredIds(fixtures) :
        /\ IsMarked(attended_matches, id)
        /\ \/ team_id = NULL
           \/ fixtures[id].home_team_id = team_id
           \/ fixtures[id].away_team_id = team_id }

\* C14: for every team argument, the stadiums list has exactly one entry per
\* distinct (venue, city) pair of the attended fixtures in scope, each entry
\* counts the attended fixtures in scope at its pair, and the visit counts
\* never increase along the list.
C14_StadiumGroups ==
    \A team_id \in TeamArgs :
        \A s \in stadiums(fixtures, attended_matches, team_id) :
            /\ \A i, j \in DOMAIN s :
                   (s[i].venue = s[j].venue
                    /\ s[i].venue_city = s[j].venue_city) => i = j
            /\ { << s[i].venue, s[i].venue_city >> : i \in DOMAIN s }
                   = { << fixtures[id].venue, fixtures[id].venue_city >> :
                         id \in AttendedInScope(team_id) }
            /\ \A i \in DOMAIN s :
                   s[i].visits
                       = Cardinality({ id \in AttendedInScope(team_id) :
                             /\ fixtures[id].venue = s[i].venue
                             /\ fixtures[id].venue_city = s[i].venue_city })
            /\ \A i, j \in DOMAIN s : i < j => s[i].visits >= s[j].visits

\* A step removes no fixture row.
C15_Step ==
    \A id \in FixtureIds : HasRow(fixtures, id) => HasRow(fixtures', id)

\* C15: the set of stored fixture_ids never shrinks: no upsert, sync
\* (successful or failed), mark, unmark, query or statistics call removes a
\* fixture row.
C15_RowsNeverDeleted == [][C15_Step]_vars

\* An upsert of a stored fixture_id failed and its row is still there, as
\* is the row of the other fixture.
C15_Witness ==
    /\ lastCall.op = "insert_fixture"
    /\ lastCall.raised
    /\ lastCall.existed
    /\ HasRow(fixtures, lastCall.data.fixture_id)
    /\ StoredIds(fixtures) = FixtureIds

\* What mark_attended does for a fixture_id without a row and without a
\* mark.
C16_Step ==
    \A call \in { lastCall' } :
        (/\ call.op = "mark_attended"
         /\ ~HasRow(fixtures, call.fixture_id)
         /\ ~IsMarked(attended_matches, call.fixture_id))
            => /\ call.ret = TRUE
               /\ Len(attended_matches') = Len(attended_matches) + 1
               /\ attended_matches'[Len(attended_matches')].fixture_id
                      = call.fixture_id
               /\ fixtures' = fixtures

\* C16: mark_attended for a fixture_id that has no fixture row and no mark
\* returns true and stores the mark; the fixture's existence is not checked.
C16_MarkWithoutFixture == [][C16_Step]_vars

\* mark_attended returned true for a fixture_id that has no row.
C16_Witness ==
    /\ lastCall.op = "mark_attended"
    /\ lastCall.ret = TRUE
    /\ ~HasRow(fixtures, lastCall.fixture_id)
    /\ IsMarked(attended_matches, lastCall.fixture_id)

\* A stored fixture that carries a mark is returned once by the
\* attended-only query, with the mark's note and date.
C17_MarkedIsReturned ==
    \A id \in StoredIds(fixtures) :
        IsMarked(attended_matches, id) =>
            \A rows \in { RowsFor(get_fixtures(fixtures, attended_matches,
                                               NULL, NoText, TRUE), id) } :
                /\ Len(rows) = 1
                /\ rows[1].attended = 1
                /\ rows[1].notes = MarksOf(attended_matches, id)[1].notes
                /\ rows[1].attended_date
                       = MarksOf(attended_matches, id)[1].attended_date

\* An upsert or sync step leaves the attendance table as it was.
C17_Step ==
    lastCall'.op \in {"insert_fixture", "sync_team_fixtures"} =>
        attended_matches' = attended_matches

\* C17: upsert and sync leave the attendance table unchanged; a fixture
\* marked before its row is overwritten or re-synced carries the same mark
\* and note afterward and is returned by the attended-only query.
C17_UpsertKeepsMarks == [](C17_MarkedIsReturned) /\ [][C17_Step]_vars

\* A sync wrote the row of a fixture twice, with different values, while the
\* fixture carried a mark with a note; the row shows the second values and
\* the mark is still there.
C17_Witness ==
    /\ lastCall.op = "sync_team_fixtures"
    /\ lastCall.ret = <<2, 2>>
    /\ lastCall.fetch.response[1].id = 1
    /\ lastCall.fetch.response[2].id = 1
    /\ lastCall.fetch.response[1].short = "FT"
    /\ lastCall.fetch.response[2].short = "NS"
    /\ fixtures[1].status = "scheduled"
    /\ IsMarked(attended_matches, 1)
    /\ MarksOf(attended_matches, 1)[1].notes = "great match"

\* The attendance table without the marks of fixture id.
WithoutMarksOf(am, id) == SelectSeq(am, LAMBDA m : m.fixture_id # id)

\* While a marked fixture_id has no fixture row, no query result holds a row
\* for it, and the statistics (total, wins, draws, losses, stadiums) are
\* what they would be without the mark.
C18_OrphanInvisible ==
    \A id \in FixtureIds :
        (IsMarked(attended_matches, id) /\ ~HasRow(fixtures, id)) =>
            /\ \A team_id \in TeamArgs, status \in StatusArgs,
                  attended_only \in BOOLEAN :
                   RowsFor(get_fixtures(fixtures, attended_matches, team_id,
                                        status, attended_only), id) = <<>>
            /\ \A team_id \in TeamArgs :
                   \A rest \in { WithoutMarksOf(attended_matches, id) } :
                       /\ get_statistics(fixtures, attended_matches, team_id)
                              = get_statistics(fixtures, rest, team_id)
                       /\ stadiums(fixtures, attended_matches, team_id)
                              = stadiums(fixtures, rest, team_id)

\* A marked fixture_id that has a fixture row appears as attended in the
\* query results and is counted in the statistics: the total is the number
\* of marked fixtures with a row, and its venue is in the stadiums list.
C18_MarkedStoredCounted ==
    /\ get_statistics(fixtures, attended_matches, NULL).total_attended
           = Cardinality({ id \in StoredIds(fixtures) :
                             IsMarked(attended_matches, id) })
    /\ \A id \in StoredIds(fixtures) :
           IsMarked(attended_matches, id) =>
               /\ \A attended_only \in BOOLEAN :
                      \A rows \in { RowsFor(get_fixtures(fixtures,
                                                         attended_matches,
                                                         NULL, NoText,
                                                         attended_only),
                                            id) } :
                          Len(rows) = 1 /\ rows[1].attended = 1
               /\ \A s \in stadiums(fixtures, attended_matches, NULL) :
                      \E i \in DOMAIN s :
                          /\ s[i].venue = fixtures[id].venue
                          /\ s[i].venue_city = fixtures[id].venue_city

\* A second mark_attended for a marked fixture_id without a row returns
\* false and changes nothing; the step that stores the row of a marked
\* fixture_id is an upsert or a sync and leaves the marks as they were.
C18_Step ==
    /\ \A call \in { lastCall' } :
           (/\ call.op = "mark_attended"
            /\ IsMarked(attended_matches, call.fixture_id)
            /\ ~HasRow(fixtures, call.fixture_id))
               => /\ call.ret = FALSE
                  /\ attended_matches' = attended_matches
                  /\ fixtures' = fixtures
    /\ \A id \in FixtureIds :
           (/\ IsMarked(attended_matches, id)
            /\ ~HasRow(fixtures, id)
            /\ HasRow(fixtures', id))
               => /\ lastCall'.op \in {"insert_fixture", "sync_team_fixtures"}
                  /\ attended_matches' = attended_matches

\* C18: a mark made for a fixture_id without a fixture row is invisible to
\* every query and not counted in the statistics while the row is absent,
\* yet a second mark_attended for the id returns false; once the fixture_id
\* is upserted, the fixture appears as attended and is counted, with no
\* further mark_attended call.
C18_OrphanMark ==
    /\ [](C18_OrphanInvisible /\ C18_MarkedStoredCounted)
    /\ [][C18_Step]_vars

\* An upsert created the row of a fixture_id that was already marked (the
\* mark is now visible), while the mark of the other fixture_id still has no
\* row.
C18_Witness ==
    /\ lastCall.op = "insert_fixture"
    /\ ~lastCall.raised
    /\ ~lastCall.existed
    /\ IsMarked(attended_matches, lastCall.data.fixture_id)
    /\ \E id \in FixtureIds :
           IsMarked(attended_matches, id) /\ ~HasRow(fixtures, id)
====
